---- MODULE Spec2Model ----
(***************************************************************************)
(* Webhook handlers of omnivore-highlight-label-uuid.                      *)
(*                                                                         *)
(* Four handler files, each exporting one default async function:          *)
(*   "createAdd"        src/api/annotate.ts   action 'created',            *)
(*                      create-label then add-label-to-highlight           *)
(*   "setLabelsRetry"   src/unnamed/part_002  action 'created',            *)
(*                      create-label then set-labels with a retry loop     *)
(*   "highlightCreated" src/unnamed/part_000  action 'HIGHLIGHT_CREATED',  *)
(*                      create-label then add-label, replies not inspected *)
(*   "annotation"       src/unnamed/part_001  label/page payload, article  *)
(*                      fetch, completion, create-label, note, add-label   *)
(*                                                                         *)
(* An invocation is a process p.  It suspends only at its awaits (fetch +  *)
(* json of an outbound call, the completion call, the backoff delay); one  *)
(* action runs the handler from one suspension point to the next.          *)
(* Message texts are ASCII renderings of the source's texts; a text is a   *)
(* sequence of pieces, interpolated values being pieces of their own.      *)
(***************************************************************************)
EXTENDS Naturals, Sequences, FiniteSets, TLC

VARIABLES
    env,        \* process.env, read by every invocation
    request,    \* request[p]: the handler variant invoked and the request body
    pc,         \* pc[p]: where invocation p is suspended
    labelName,  \* labelName[p]: the tag `uuid:${labelUuid}`, <<>> before it exists
    newLabelId, \* newLabelId[p]: part_002 line 192
    retries,    \* retries[p]: part_002 line 223
    success,    \* success[p]: part_002 line 224
    note,       \* note[p]: part_001's locals (articleId, existingNote, prompt, ...)
    calls,      \* calls[p]: outbound calls issued so far, in order
    replies,    \* replies[p]: what the remote answered to each call, in order
    waits,      \* waits[p]: the delays (ms) awaited so far, in order
    response,   \* response[p]: the Response returned, NoResponse before
    issued      \* issued[p]: the values uuidv4() returned to invocation p, in order

vars == <<env, request, pc, labelName, newLabelId, retries, success, note,
          calls, replies, waits, response, issued>>

----------------------------------------------------------------------------
(* JavaScript values *)

Undefined == "<undefined>"
Null == "<null>"

\* a mutant: the empty string taken for a value
FalsyButEmpty(v) == v \in {"<undefined>", "<null>"}

\* !v for the string-valued fields of the model (ids, keys, names)
Falsy(v) == v \in {Undefined, Null, ""}
Truthy(v) == ~Falsy(v)

\* a ?? b
Coalesce(a, b) == IF a \in {Undefined, Null} THEN b ELSE a

Range(s) == {s[k] : k \in DOMAIN s}

----------------------------------------------------------------------------
(* Inputs *)

HighlightVariants == {"createAdd", "setLabelsRetry", "highlightCreated"}
CreatedVariants == {"createAdd", "setLabelsRetry"}

\* body.highlight: undefined, null, or an object whose id may be missing or empty
HighlightIds == {Undefined, "", "h1", "h2"}
Highlights ==
    {[is |-> "undefined", id |-> Undefined], [is |-> "null", id |-> Undefined]}
    \cup {[is |-> "object", id |-> h] : h \in HighlightIds}

NoHighlight == [is |-> "undefined", id |-> Undefined]

\* A label name is the sequence of its ':'-separated segments.
LabelNames == {<<"summarize">>, <<"summarize", "short">>, <<"other">>,
               <<"other", "summarize">>}

\* body.label: undefined, or {pageId, labels}; labels may be missing, and
\* the payload may be a label itself, with a name of its own (name <<>>: the
\* payload has no name)
LabelPayloads ==
    {[is |-> "undefined", pageId |-> Undefined, hasLabels |-> FALSE, labels |-> <<>>,
      name |-> <<>>],
     [is |-> "object", pageId |-> "a1", hasLabels |-> FALSE, labels |-> <<>>,
      name |-> <<>>],
     [is |-> "object", pageId |-> "a1", hasLabels |-> TRUE, labels |-> <<>>,
      name |-> <<>>]}
    \cup {[is |-> "object", pageId |-> "a1", hasLabels |-> FALSE, labels |-> <<>>,
           name |-> n] : n \in {<<"summarize", "short">>, <<"other">>}}
    \cup {[is |-> "object", pageId |-> "a1", hasLabels |-> TRUE, labels |-> <<n>>,
           name |-> <<>>] : n \in LabelNames}
    \cup {[is |-> "object", pageId |-> "a1", hasLabels |-> TRUE,
           labels |-> <<<<"other">>, <<"summarize", "short">>>>, name |-> <<>>],
          [is |-> "object", pageId |-> "a1", hasLabels |-> TRUE,
           labels |-> <<<<"other">>>>, name |-> <<"summarize">>]}

NoLabel == [is |-> "undefined", pageId |-> Undefined, hasLabels |-> FALSE, labels |-> <<>>,
            name |-> <<>>]

\* body.page: undefined, or {id}
PagePayloads == {[is |-> "undefined", id |-> Undefined], [is |-> "object", id |-> "a2"]}

NoPage == [is |-> "undefined", id |-> Undefined]

\* The request body as req.json() yields it: a rejection (not JSON), the JSON
\* value null, or an object.
InvalidBody == [json |-> "invalid", action |-> Undefined, highlight |-> NoHighlight,
                label |-> NoLabel, page |-> NoPage]
NullBody == [json |-> "null", action |-> Undefined, highlight |-> NoHighlight,
             label |-> NoLabel, page |-> NoPage]

HighlightBodies ==
    {InvalidBody, NullBody}
    \cup {[json |-> "object", action |-> a, highlight |-> h, label |-> NoLabel,
           page |-> NoPage] :
             a \in {Undefined, "created", "HIGHLIGHT_CREATED", "LABEL_ADDED"},
             h \in Highlights}

AnnotationBodies ==
    {InvalidBody, NullBody}
    \cup {[json |-> "object", action |-> a, highlight |-> NoHighlight, label |-> l,
           page |-> g] :
             a \in {"LABEL_ADDED", "PAGE_CREATED"}, l \in LabelPayloads,
             g \in PagePayloads}

Requests ==
    {[variant |-> v, body |-> b] : v \in HighlightVariants, b \in HighlightBodies}
    \cup {[variant |-> "annotation", body |-> b] : b \in AnnotationBodies}

\* process.env: the variables the handlers read
ApiKeys == {Undefined, "", "key"}
Envs == [OMNIVORE_API_KEY : ApiKeys,
         OMNIVORE_ANNOTATE_LABEL : {Undefined, "summarize"},
         OPENAI_PROMPT : {Undefined, "", "prompt-from-env"},
         OPENAI_SETTINGS : {Undefined, "not json"},
         OPENAI_API_KEY : {Undefined, "sk"}]

\* The highlight handlers read OMNIVORE_API_KEY only.
HighlightEnvs == {e \in Envs : /\ e.OMNIVORE_ANNOTATE_LABEL = Undefined
                               /\ e.OPENAI_PROMPT = Undefined
                               /\ e.OPENAI_SETTINGS = Undefined
                               /\ e.OPENAI_API_KEY = Undefined}
AnnotationEnvs == {e \in Envs : e.OMNIVORE_API_KEY # ""}

\* An invocation calls uuidv4() twice at most: for its tag, and (annotation
\* handler) for the id of a new note.
MaxUuidsPerInvocation == 2

\* The values uuidv4() can return: as many as the invocations can ask for.
\* Each value is returned once only: see FreshUuids.
UuidValues == <<"uuid-1", "uuid-2", "uuid-3", "uuid-4">>
Uuids == {UuidValues[i] : i \in 1..(MaxUuidsPerInvocation * Cardinality(DOMAIN pc))}

----------------------------------------------------------------------------
(* Responses *)

NoResponse == [status |-> 0, text |-> <<>>]

\* a mutant: the init object left out, so the status is the default 200
ResponseDefaultStatus(status, text) == [status |-> 200, text |-> text]

\* new Response(text) has status 200; new Response(text, {status}) has that status
Response(status, text) == [status |-> status, text |-> text]

\* a mutant: the template literal without its placeholder
LabelNameLiteral(labelUuid) == <<"uuid:", "labelUuid">>

\* `uuid:${labelUuid}`
LabelNameOf(labelUuid) == <<"uuid:", labelUuid>>

\* a mutant: the array interpolated without JSON.stringify
ObjectToString(errors) == <<"[object Object]">>

\* JSON.stringify of an errors array
JSONStringify(errors) == <<"[">> \o errors \o <<"]">>

----------------------------------------------------------------------------
(* Remote replies *)

\* What `await fetch(...)` followed by `await request.json()` yields for a
\* GraphQL call: the fetch rejects, the body is not JSON, the body is the JSON
\* value null, or the body is an object with an optional `errors` array and,
\* for create-label, an optional data.createLabel.label.id.
Reply(t, hasErrors, errors, label) ==
    [t |-> t, hasErrors |-> hasErrors, errors |-> errors, label |-> label]

FetchRejects == Reply("reject", FALSE, <<>>, "missing")
NotJson == Reply("nonJson", FALSE, <<>>, "missing")
JsonNull == Reply("null", FALSE, <<>>, "missing")

\* The `errors` arrays a reply may carry: up to MaxErrors error codes "1", "2",
\* ...; the empty array is an `errors` field too (an array is truthy).
MaxErrors == 2
RemoteErrors == {[k \in 1..n |-> ToString(k)] : n \in 0..MaxErrors}
OneError == <<"1">>
LabelIds == {"L1", "L2"}

JsonReplies(labels) ==
    {Reply("json", FALSE, <<>>, l) : l \in labels}
    \cup {Reply("json", TRUE, e, l) : e \in RemoteErrors, l \in labels}

CreateLabelReplies ==
    {FetchRejects, NotJson, JsonNull} \cup JsonReplies({"missing"} \cup LabelIds)
MutationReplies == {FetchRejects, NotJson, JsonNull} \cup JsonReplies({"missing"})

\* the awaits of a call throw: fetch rejected, or json() rejected
Throws(r) == r.t \in {"reject", "nonJson"}
\* reading a property of the parsed body throws a TypeError
DerefThrows(r) == r.t = "null"

ErrorMessage(r) ==
    IF r.t = "reject" THEN "fetch failed"
    ELSE IF r.t = "nonJson" THEN "Unexpected token in JSON"
    ELSE "Cannot read properties of null"

\* The article query's reply (part_001 lines 118-135): as above, and when it
\* is an object, data.article.article may be missing (an ArticleError).
\* A highlight of the article is {id, shortId, type}; a label {name, description}.
NoExistingNote == [is |-> "undefined", id |-> Undefined, shortId |-> Undefined]

ArticleLabels ==
    {<<>>,
     <<[name |-> <<"other">>, description |-> "prompt-of-other"],
       [name |-> <<"summarize">>, description |-> "prompt-from-label"]>>,
     <<[name |-> <<"summarize", "short">>, description |-> ""]>>,
     <<[name |-> <<"summarize">>, description |-> Undefined]>>,
     <<[name |-> <<"summarize", "a">>, description |-> ""],
       [name |-> <<"summarize", "b">>, description |-> "prompt-of-second"]>>}

ArticleHighlights ==
    {<<>>,
     <<[id |-> "n1", shortId |-> "n1-short", type |-> "NOTE"]>>,
     <<[id |-> "h9", shortId |-> "h9-short", type |-> "HIGHLIGHT"],
       [id |-> "n2", shortId |-> "n2-short", type |-> "NOTE"],
       [id |-> "n3", shortId |-> "n3-short", type |-> "NOTE"]>>}

NoArticle == [is |-> "missing", title |-> "", contentLength |-> 0, labels |-> <<>>,
              highlights |-> <<>>]

Articles ==
    {NoArticle,
     [is |-> "object", title |-> "T", contentLength |-> 279, labels |-> <<>>,
      highlights |-> <<>>]}
    \cup {[is |-> "object", title |-> "T", contentLength |-> 280, labels |-> l,
           highlights |-> <<>>] : l \in ArticleLabels}
    \cup {[is |-> "object", title |-> "T", contentLength |-> 281, labels |-> <<>>,
           highlights |-> h] : h \in ArticleHighlights}

ArticleReply(t, hasErrors, errors, article) ==
    [t |-> t, hasErrors |-> hasErrors, errors |-> errors, article |-> article]

ArticleReplies ==
    {ArticleReply("reject", FALSE, <<>>, NoArticle),
     ArticleReply("nonJson", FALSE, <<>>, NoArticle),
     ArticleReply("null", FALSE, <<>>, NoArticle),
     ArticleReply("json", TRUE, OneError, NoArticle),
     ArticleReply("json", TRUE, OneError,
                  [is |-> "object", title |-> "T", contentLength |-> 280,
                   labels |-> <<>>, highlights |-> <<>>])}
    \cup {ArticleReply("json", FALSE, <<>>, a) : a \in Articles}

\* The completion call's result: it rejects, or resolves to an object whose
\* choices may be empty and whose first choice's content may be missing.
\* A text is the sequence of its characters.
CompletionReply(t, choices, hasContent, content) ==
    [t |-> t, choices |-> choices, hasContent |-> hasContent, content |-> content]

CompletionReplies ==
    {CompletionReply("reject", 0, FALSE, <<>>),
     CompletionReply("json", 0, FALSE, <<>>),
     CompletionReply("json", 1, FALSE, <<>>),
     CompletionReply("json", 1, TRUE, <<>>),
     CompletionReply("json", 1, TRUE,
                     <<"\n", " ", " ", "a", "\\", "\"", "\t", "b", " ", "﻿",
                       "\r", "\n">>)}

\* The replies of the mutations whose bodies part_001 does not inspect.
AnnotationReplies ==
    {FetchRejects, NotJson, JsonNull, Reply("json", FALSE, <<>>, "missing"),
     Reply("json", TRUE, OneError, "missing")}

----------------------------------------------------------------------------
(* The handler-local state of one invocation, and its moves *)

NoNote == [articleId |-> "", existingNote |-> NoExistingNote, prompt |-> "",
           title |-> "", contentLength |-> 0, annotation |-> <<>>,
           highlightId |-> Undefined]

InitialLocal ==
    [pc |-> "start", labelName |-> <<>>, newLabelId |-> Undefined, retries |-> 0,
     success |-> FALSE, note |-> NoNote, calls |-> <<>>, replies |-> <<>>, waits |-> <<>>,
     response |-> NoResponse, uuids |-> <<>>]

\* uuidv4() returns labelUuid
Uuidv4(s, labelUuid) == [s EXCEPT !.uuids = Append(@, labelUuid)]

\* return new Response(...)
Return(s, resp) == [s EXCEPT !.pc = "done", !.response = resp]

\* await fetch(...): the call is issued and the handler suspends at `at`
Fetch(s, call, at) == [s EXCEPT !.pc = at, !.calls = Append(@, call)]

\* the awaited reply arrives
Received(s, r) == [s EXCEPT !.replies = Append(@, r)]

\* a mutant: the label created under the bare uuid, without the prefix
CreateLabelCallUnprefixed(auth, name) ==
    [op |-> "createLabel", auth |-> auth, name |-> Tail(name)]

CreateLabelCall(auth, name) ==
    [op |-> "createLabel", auth |-> auth, name |-> name]
\* a mutant: the label's name sent as the target
AddLabelCallToLabel(auth, highlightId, label) ==
    [op |-> "addLabelToHighlight", auth |-> auth, highlightId |-> label,
     label |-> label]

AddLabelCall(auth, highlightId, label) ==
    [op |-> "addLabelToHighlight", auth |-> auth, highlightId |-> highlightId,
     label |-> label]
\* a mutant: the highlight and the label are in each other's place
SetLabelsCallSwapped(auth, highlightId, labelIds) ==
    [op |-> "setLabelsForHighlight", auth |-> auth, highlightId |-> labelIds[1],
     labelIds |-> <<highlightId>>]

SetLabelsCall(auth, highlightId, labelIds) ==
    [op |-> "setLabelsForHighlight", auth |-> auth, highlightId |-> highlightId,
     labelIds |-> labelIds]

----------------------------------------------------------------------------
(* src/api/annotate.ts: 'created', create-label then add-label-to-highlight *)

\* a mutant: the catch block rethrows, the handler's promise rejects
CreateAddCatchRethrows(s, message) == [s EXCEPT !.pc = "done"]

\* lines 241-248
CreateAddCatch(s, message) ==
    Return(s, Response(500, <<"error handling Omnivore webhook: ", message>>))

\* a mutant: any action that is present is taken for a creation
CreateAddAnyAction(body) == body.action # Undefined

\* line 107: body.action !== "created", negated
CreateAddIsCreation(body) == body.action = "created"

\* lines 101-179: from the request to the create-label fetch
CreateAddReceive(s, body, e, labelUuid) ==
    IF body.json = "invalid" THEN CreateAddCatch(s, "Unexpected token in JSON")
    ELSE IF body.json = "null" THEN CreateAddCatch(s, "Cannot read properties of null")
    ELSE IF ~CreateAddIsCreation(body)
        THEN Return(s, Response(200, <<"not a 'created' event, nothing to process">>))
    ELSE IF body.highlight.is # "object"
        THEN Return(s, Response(200, <<"no highlight data in the webhook payload">>))
    ELSE IF Falsy(body.highlight.id)
        THEN Return(s, Response(200, <<"highlight id missing, nothing to do">>))
    ELSE LET s1 == [Uuidv4(s, labelUuid) EXCEPT !.labelName = LabelNameOf(labelUuid)] IN
        IF Falsy(e.OMNIVORE_API_KEY)
            THEN Return(s1, Response(500, <<"OMNIVORE_API_KEY not set">>))
        ELSE Fetch(s1, CreateLabelCall(e.OMNIVORE_API_KEY, s1.labelName), "createLabel")

\* lines 180-227: the create-label reply, to the add-label fetch
CreateAddCreateLabelReturns(s, body, e, r) ==
    LET s1 == Received(s, r) IN
    IF Throws(r) \/ DerefThrows(r) THEN CreateAddCatch(s1, ErrorMessage(r))
    ELSE IF r.hasErrors
        THEN Return(s1, Response(500, <<"create label failed: ">> \o JSONStringify(r.errors)))
    ELSE Fetch(s1, AddLabelCall(e.OMNIVORE_API_KEY, body.highlight.id, s1.labelName),
               "addLabel")

\* a mutant: a failed add-label is compensated by deleting the label
CreateAddAddLabelReturnsCompensating(s, r) ==
    LET s1 == Received(s, r)
        s2 == [s1 EXCEPT !.calls = Append(@, [op |-> "deleteLabel",
                                               name |-> s1.labelName])]
    IN
    IF Throws(r) \/ DerefThrows(r) THEN CreateAddCatch(s2, ErrorMessage(r))
    ELSE IF r.hasErrors
        THEN Return(s2, Response(500, <<"add label to highlight failed: ">>
                                       \o JSONStringify(r.errors)))
    ELSE Return(s1, Response(200, <<"added label ">> \o s1.labelName \o <<" to highlight">>))

\* lines 228-239: the add-label reply, to the response
CreateAddAddLabelReturns(s, r) ==
    LET s1 == Received(s, r) IN
    IF Throws(r) \/ DerefThrows(r) THEN CreateAddCatch(s1, ErrorMessage(r))
    ELSE IF r.hasErrors
        THEN Return(s1, Response(500, <<"add label to highlight failed: ">>
                                       \o JSONStringify(r.errors)))
    ELSE Return(s1, Response(200, <<"added label ">> \o s1.labelName \o <<" to highlight">>))

----------------------------------------------------------------------------
(* src/unnamed/part_002: 'created', create-label then set-labels, retried *)

\* a mutant: one attempt more
maxRetriesPlusOne == 3 + 1

\* line 222
maxRetries == 3

\* a mutant: the delay computed from the number of the next attempt
BackoffMsOfNextAttempt(n) == (n + 1) * 2000

\* delay(retries * 2000), in ms
BackoffMs(n) == n * 2000

\* lines 265-272
RetryCatch(s, message) ==
    Return(s, Response(500, <<"error handling Omnivore webhook: ", message>>))

\* lines 103-181: from the request to the create-label fetch
RetryReceive(s, body, e, labelUuid) ==
    IF body.json = "invalid" THEN RetryCatch(s, "Unexpected token in JSON")
    ELSE IF body.json = "null" THEN RetryCatch(s, "Cannot read properties of null")
    ELSE IF body.action # "created"
        THEN Return(s, Response(200, <<"not a 'created' event, nothing to process">>))
    ELSE IF body.highlight.is # "object"
        THEN Return(s, Response(200, <<"no highlight data in the webhook payload">>))
    ELSE IF Falsy(body.highlight.id)
        THEN Return(s, Response(200, <<"highlight id missing, nothing to do">>))
    ELSE LET s1 == [Uuidv4(s, labelUuid) EXCEPT !.labelName = LabelNameOf(labelUuid)] IN
        IF Falsy(e.OMNIVORE_API_KEY)
            THEN Return(s1, Response(500, <<"OMNIVORE_API_KEY not set">>))
        ELSE Fetch(s1, CreateLabelCall(e.OMNIVORE_API_KEY, s1.labelName), "createLabel")

\* a mutant: the loop runs on after a success
RetryLoopIgnoringSuccess(s, body, e) ==
    IF s.retries < maxRetries
        THEN Fetch([s EXCEPT !.retries = @ + 1],
                   SetLabelsCall(e.OMNIVORE_API_KEY, body.highlight.id,
                                 <<s.newLabelId>>), "setLabels")
    ELSE IF s.success
        THEN Return(s, Response(200, <<"set label ">> \o s.labelName \o <<" on highlight">>))
    ELSE Return(s, Response(500, <<"set highlight labels failed after ",
                                   ToString(maxRetries),
                                   " attempts; check the server logs">>))

\* lines 226-238 and 259-263: the loop condition; a further attempt, or the
\* response once the loop is left
RetryLoop(s, body, e) ==
    IF s.retries < maxRetries /\ ~s.success
        THEN Fetch(s, SetLabelsCall(e.OMNIVORE_API_KEY, body.highlight.id,
                                    <<s.newLabelId>>), "setLabels")
    ELSE IF s.success
        THEN Return(s, Response(200, <<"set label ">> \o s.labelName \o <<" on highlight">>))
    ELSE Return(s, Response(500, <<"set highlight labels failed after ",
                                   ToString(maxRetries),
                                   " attempts; check the server logs">>))

\* a mutant: the label id read with optional chaining (?.label?.id)
RetryCreateLabelReturnsOptionalChaining(s, body, e, r) ==
    LET s1 == Received(s, r) IN
    IF Throws(r) \/ DerefThrows(r) THEN RetryCatch(s1, ErrorMessage(r))
    ELSE IF r.hasErrors
        THEN Return(s1, Response(500, <<"create label failed: ">> \o JSONStringify(r.errors)))
    ELSE RetryLoop([s1 EXCEPT !.newLabelId = IF r.label = "missing" THEN Undefined
                                              ELSE r.label,
                              !.retries = 0, !.success = FALSE],
                   body, e)

\* lines 182-224: the create-label reply, to the first set-labels attempt
RetryCreateLabelReturns(s, body, e, r) ==
    LET s1 == Received(s, r) IN
    IF Throws(r) \/ DerefThrows(r) THEN RetryCatch(s1, ErrorMessage(r))
    ELSE IF r.hasErrors
        THEN Return(s1, Response(500, <<"create label failed: ">> \o JSONStringify(r.errors)))
    ELSE IF r.label = "missing"
        THEN RetryCatch(s1, "Cannot read properties of undefined")
    ELSE RetryLoop([s1 EXCEPT !.newLabelId = r.label, !.retries = 0, !.success = FALSE],
                   body, e)

\* a mutant: the fetch and the json() stand outside the loop's try block
RetrySetLabelsReturnsUncaught(s, body, e, r) ==
    LET s1 == Received(s, r) IN
    IF Throws(r) THEN RetryCatch(s1, ErrorMessage(r))
    ELSE IF DerefThrows(r) \/ r.hasErrors
        THEN LET s2 == [s1 EXCEPT !.retries = @ + 1] IN
             IF s2.retries < maxRetries
                 THEN [s2 EXCEPT !.pc = "delay",
                                 !.waits = Append(@, BackoffMs(s2.retries))]
             ELSE RetryLoop(s2, body, e)
    ELSE RetryLoop([s1 EXCEPT !.success = TRUE], body, e)

\* lines 240-257: the reply to one attempt; a failure of any kind is caught
\* in the loop, counted, and followed by a delay unless it was the last
RetrySetLabelsReturns(s, body, e, r) ==
    LET s1 == Received(s, r) IN
    IF Throws(r) \/ DerefThrows(r) \/ r.hasErrors
        THEN LET s2 == [s1 EXCEPT !.retries = @ + 1] IN
             IF s2.retries < maxRetries
                 THEN [s2 EXCEPT !.pc = "delay",
                                 !.waits = Append(@, BackoffMs(s2.retries))]
             ELSE RetryLoop(s2, body, e)
    ELSE RetryLoop([s1 EXCEPT !.success = TRUE], body, e)

\* a mutant: the retry starts over from create-label
RetryDelayElapsesStartsOver(s, body, e) ==
    Fetch(s, CreateLabelCall(e.OMNIVORE_API_KEY, s.labelName), "createLabel")

\* line 254 resumes: back to the loop condition
RetryDelayElapses(s, body, e) == RetryLoop(s, body, e)

----------------------------------------------------------------------------
(* src/unnamed/part_000: 'HIGHLIGHT_CREATED', create-label then add-label *)

\* lines 145-150
HighlightCreatedCatch(s, message) ==
    Return(s, Response(500, <<"error handling Omnivore webhook: ", message>>))

\* lines 36-99: from the request to the create-label fetch; the API key is
\* not checked, a missing one is sent as ""
HighlightCreatedReceive(s, body, e, labelUuid) ==
    IF body.json = "invalid" THEN HighlightCreatedCatch(s, "Unexpected token in JSON")
    ELSE IF body.json = "null"
        THEN HighlightCreatedCatch(s, "Cannot read properties of null")
    ELSE IF body.action # "HIGHLIGHT_CREATED"
        THEN Return(s, Response(200, <<"not a HIGHLIGHT_CREATED event, nothing to process">>))
    ELSE IF body.highlight.is # "object"
        THEN Return(s, Response(200, <<"no highlight data in the webhook payload">>))
    ELSE IF Falsy(body.highlight.id)
        THEN Return(s, Response(200, <<"highlight does not exist, nothing to do">>))
    ELSE LET s1 == [Uuidv4(s, labelUuid) EXCEPT !.labelName = LabelNameOf(labelUuid)] IN
        Fetch(s1, CreateLabelCall(Coalesce(e.OMNIVORE_API_KEY, ""), s1.labelName),
              "createLabel")

\* lines 100-139: the create-label reply is logged, not inspected
HighlightCreatedCreateLabelReturns(s, body, e, r) ==
    LET s1 == Received(s, r) IN
    IF Throws(r) THEN HighlightCreatedCatch(s1, ErrorMessage(r))
    ELSE Fetch(s1, AddLabelCall(Coalesce(e.OMNIVORE_API_KEY, ""), body.highlight.id,
                                s1.labelName), "addLabel")

\* lines 140-143: the add-label reply is logged, not inspected
HighlightCreatedAddLabelReturns(s, r) ==
    LET s1 == Received(s, r) IN
    IF Throws(r) THEN HighlightCreatedCatch(s1, ErrorMessage(r))
    ELSE Return(s1, Response(200, <<"added label ">> \o s1.labelName \o <<" to highlight">>))

----------------------------------------------------------------------------
(* src/unnamed/part_001: the annotation handler *)

\* a mutant: the comparison off by one (<= 280)
MinContentLengthInclusive == 280 + 1

MinContentLength == 280

DefaultPrompt == "return a tweet-length TL;DR of the following article"

Min(S) == CHOOSE x \in S : \A y \in S : x <= y

\* labelNames.join(", ")
RECURSIVE Join(_)
Join(names) ==
    IF names = <<>> THEN <<>>
    ELSE IF Len(names) = 1 THEN names
    ELSE <<Head(names), ", ">> \o Join(Tail(names))

\* the white space and line terminators that String.prototype.trim strips:
\* U+0009 to U+000D, U+0020, U+00A0, U+1680 and U+FEFF, in this order (the
\* last four strings hold the characters U+000B, U+00A0, U+1680 and U+FEFF
\* themselves); trim strips U+2000 to U+200A, U+2028, U+2029, U+202F, U+205F
\* and U+3000 as well, which a string of this module cannot hold
WhiteSpace == {"\t", "\n", "\f", "\r", " ", "", " ", " ", "﻿"}

\* String.prototype.trim on a sequence of characters
RECURSIVE TrimStart(_)
TrimStart(t) == IF t # <<>> /\ Head(t) \in WhiteSpace THEN TrimStart(Tail(t)) ELSE t
RECURSIVE TrimEnd(_)
TrimEnd(t) ==
    IF t # <<>> /\ t[Len(t)] \in WhiteSpace THEN TrimEnd(SubSeq(t, 1, Len(t) - 1))
    ELSE t
Trim(t) == TrimEnd(TrimStart(t))

\* .replace(/\\/g, "\\\\").replace(/"/g, '\\"'), lines 238-239
RECURSIVE EscapeText(_)
EscapeText(t) ==
    IF t = <<>> THEN <<>>
    ELSE (IF Head(t) = "\\" THEN <<"\\", "\\">>
          ELSE IF Head(t) = "\"" THEN <<"\\", "\"">>
          ELSE <<Head(t)>>) \o EscapeText(Tail(t))

\* a mutant: the kind taken from the action field
WebhookTypeByAction(body) ==
    IF body.action = "LABEL_ADDED" THEN "LABEL_ADDED"
    ELSE IF body.action = "PAGE_CREATED" THEN "PAGE_CREATED"
    ELSE "none"

\* lines 62-70: the kind of the event, by the payload that is present
WebhookType(body) ==
    IF body.label.is = "object" THEN "LABEL_ADDED"
    ELSE IF body.page.is = "object" THEN "PAGE_CREATED"
    ELSE "none"

\* a mutant: the part of each label name after its last ':'
LabelSuffixes(labels) == [k \in DOMAIN labels |-> labels[k][Len(labels[k])]]

\* line 84: the part of each label name before its first ':'
LabelPrefixes(labels) == [k \in DOMAIN labels |-> Head(labels[k])]

\* lines 193-195: the description of the first article label whose prefix is
\* the annotate-label, undefined when there is none
PromptFromLabel(articleLabels, annotateLabel) ==
    LET hits == {k \in DOMAIN articleLabels : Head(articleLabels[k].name) = annotateLabel}
    IN IF hits = {} THEN Undefined ELSE articleLabels[Min(hits)].description

\* a mutant: the type compared with a literal no highlight has ("Note")
ExistingNoteMistyped(highlights) == NoExistingNote

\* line 197: the first highlight of type NOTE
ExistingNote(highlights) ==
    LET hits == {k \in DOMAIN highlights : highlights[k].type = "NOTE"}
    IN IF hits = {} THEN NoExistingNote
       ELSE [is |-> "object", id |-> highlights[Min(hits)].id,
             shortId |-> highlights[Min(hits)].shortId]

\* a mutant: the environment's prompt takes precedence over the label's
PromptEnvFirst(promptFromLabel, e) ==
    IF Truthy(e.OPENAI_PROMPT) THEN e.OPENAI_PROMPT
    ELSE IF Truthy(promptFromLabel) THEN promptFromLabel
    ELSE DefaultPrompt

\* lines 205-208
Prompt(promptFromLabel, e) ==
    IF Truthy(promptFromLabel) THEN promptFromLabel
    ELSE IF Truthy(e.OPENAI_PROMPT) THEN e.OPENAI_PROMPT
    ELSE DefaultPrompt

\* id.substring(0, 8)
ShortIdOf(id) == [substringOf |-> id, from |-> 0, to |-> 8]

ArticleCall(auth, slug) == [op |-> "article", auth |-> auth, slug |-> slug]
CompletionCall(prompt, title, contentLength) ==
    [op |-> "completion", prompt |-> prompt, title |-> title,
     contentLength |-> contentLength]
UpdateHighlightCall(auth, id, shortId, articleId, annotation) ==
    [op |-> "updateHighlight", auth |-> auth, id |-> id, shortId |-> shortId,
     articleId |-> articleId, annotation |-> annotation]
CreateHighlightCall(auth, id, shortId, articleId, annotation) ==
    [op |-> "createHighlight", auth |-> auth, id |-> id, shortId |-> shortId,
     articleId |-> articleId, annotation |-> annotation, type |-> "NOTE"]

\* lines 412-417
AnnotationCatch(s, message) ==
    Return(s, Response(500, <<"error adding annotation to Omnivore article: ">>
                            \o message))

\* lines 113-176: the article query is issued; a missing API key is sent as ""
AnnotationFetchArticle(s, e, articleId) ==
    Fetch([s EXCEPT !.note.articleId = articleId],
          ArticleCall(Coalesce(e.OMNIVORE_API_KEY, ""), articleId), "article")

\* line 83: label?.labels || [label]; a name <<>> in the result is a label
\* without a name
LabelsOf(label) == IF label.hasLabels THEN label.labels ELSE <<label.name>>

\* lines 56-176: from the request to the article fetch
AnnotationReceive(s, body, e) ==
    IF body.json = "invalid" THEN AnnotationCatch(s, <<"Unexpected token in JSON">>)
    ELSE IF body.json = "null"
        THEN AnnotationCatch(s, <<"Cannot read properties of null">>)
    ELSE IF WebhookType(body) = "none"
        THEN AnnotationCatch(s, <<"no label or page data in the webhook payload">>)
    ELSE LET annotateLabel == Coalesce(e.OMNIVORE_ANNOTATE_LABEL, "")
             labels == LabelsOf(body.label)
             labelNames == LabelPrefixes(labels)
         IN CASE WebhookType(body) = "LABEL_ADDED" ->
                    IF Falsy(annotateLabel)
                        THEN AnnotationCatch(s, <<"no label specified in the environment">>)
                    ELSE IF <<>> \in Range(labels)
                        \* line 84: label.name is undefined, .split throws
                        THEN AnnotationCatch(s, <<"Cannot read properties of undefined">>)
                    ELSE IF annotateLabel \notin Range(labelNames)
                        THEN AnnotationCatch(s,
                                 <<"label ", annotateLabel,
                                   " does not match the labels of the webhook <">>
                                 \o Join(labelNames) \o <<">">>)
                    ELSE AnnotationFetchArticle(s, e, body.label.pageId)
              [] WebhookType(body) = "PAGE_CREATED" ->
                    AnnotationFetchArticle(s, e, body.page.id)
              [] OTHER ->
                    Return(s, Response(400,
                        <<"neither label data nor a PAGE_CREATED event">>))

\* lines 177-226: the article reply, to the completion call
AnnotationArticleReturns(s, e, r) ==
    LET s1 == Received(s, r)
        annotateLabel == Coalesce(e.OMNIVORE_ANNOTATE_LABEL, "")
        a == r.article
        s2 == [s1 EXCEPT !.note.existingNote = ExistingNote(a.highlights),
                         !.note.title = a.title,
                         !.note.contentLength = a.contentLength,
                         !.note.prompt =
                             Prompt(PromptFromLabel(a.labels, annotateLabel), e)]
    IN
    IF Throws(r) \/ DerefThrows(r) THEN AnnotationCatch(s1, <<ErrorMessage(r)>>)
    ELSE IF a.is = "missing"
        THEN AnnotationCatch(s1, <<"Cannot read properties of undefined">>)
    ELSE IF a.contentLength < MinContentLength
        THEN AnnotationCatch(s2,
                 <<"article content under 280 characters, nothing to summarize">>)
    ELSE IF e.OPENAI_API_KEY = Undefined
        \* line 204: new OpenAI() throws without its key
        THEN AnnotationCatch(s2, <<"The OPENAI_API_KEY environment variable is missing">>)
    ELSE IF Truthy(e.OPENAI_SETTINGS) /\ e.OPENAI_SETTINGS = "not json"
        \* line 214: JSON.parse(settings) throws while the call's argument is built
        THEN AnnotationCatch(s2, <<"Unexpected token in JSON">>)
    ELSE Fetch(s2, CompletionCall(s2.note.prompt, a.title, a.contentLength), "completion")

\* a mutant: create-label is not awaited, the note mutation goes out with it
AnnotationCompletionReturnsNoAwait(s, e, r, labelUuid) ==
    LET s1 == Received(s, r)
        auth == Coalesce(e.OMNIVORE_API_KEY, "")
        s2 == [Uuidv4(s1, labelUuid) EXCEPT !.labelName = LabelNameOf(labelUuid),
                                            !.note.highlightId = labelUuid]
    IN
    IF r.t = "reject" \/ r.choices = 0
        THEN AnnotationCatch(s1, <<"completion request failed">>)
    ELSE Fetch(Fetch(s2, CreateLabelCall(auth, s2.labelName), "createLabel"),
               CreateHighlightCall(auth, labelUuid, ShortIdOf(labelUuid),
                                   s2.note.articleId, s2.note.annotation),
               "highlight")

\* lines 227-276: the completion result, to the create-label fetch
AnnotationCompletionReturns(s, e, r, labelUuid) ==
    LET s1 == Received(s, r)
        s2 == [Uuidv4(s1, labelUuid) EXCEPT !.note.annotation =
                             EscapeText(Trim(IF r.hasContent THEN r.content ELSE <<>>)),
                         !.labelName = LabelNameOf(labelUuid)]
    IN
    IF r.t = "reject" THEN AnnotationCatch(s1, <<"completion request failed">>)
    ELSE IF r.choices = 0
        THEN AnnotationCatch(s1, <<"Cannot read properties of undefined">>)
    ELSE Fetch(s2, CreateLabelCall(Coalesce(e.OMNIVORE_API_KEY, ""), s2.labelName),
               "createLabel")

\* lines 278-372: the create-label reply is logged, not inspected; the note
\* is updated when the article has one, created with a new id otherwise
AnnotationCreateLabelReturns(s, e, r, id) ==
    LET s1 == Received(s, r)
        auth == Coalesce(e.OMNIVORE_API_KEY, "")
        n == s1.note
    IN
    IF Throws(r) THEN AnnotationCatch(s1, <<ErrorMessage(r)>>)
    ELSE IF n.existingNote.is = "object"
        THEN Fetch([s1 EXCEPT !.note.highlightId = n.existingNote.id],
                   UpdateHighlightCall(auth, n.existingNote.id, n.existingNote.shortId,
                                       n.articleId, n.annotation), "highlight")
    ELSE Fetch([Uuidv4(s1, id) EXCEPT !.note.highlightId = id],
               CreateHighlightCall(auth, id, ShortIdOf(id), n.articleId, n.annotation),
               "highlight")

\* lines 374-405: the note mutation's reply is logged, not inspected
AnnotationHighlightReturns(s, e, r) ==
    LET s1 == Received(s, r) IN
    IF Throws(r) THEN AnnotationCatch(s1, <<ErrorMessage(r)>>)
    ELSE Fetch(s1, AddLabelCall(Coalesce(e.OMNIVORE_API_KEY, ""),
                                IF s1.note.existingNote.is = "object"
                                    THEN s1.note.existingNote.id
                                    ELSE s1.note.highlightId,
                                s1.labelName), "addLabel")

\* lines 407-410: the add-label reply is logged, not inspected
AnnotationAddLabelReturns(s, r) ==
    LET s1 == Received(s, r) IN
    IF Throws(r) THEN AnnotationCatch(s1, <<ErrorMessage(r)>>)
    ELSE Return(s1, Response(200, <<"added article annotation with label ">>
                                  \o s1.labelName))

----------------------------------------------------------------------------
(* The state machine *)

Procs == DOMAIN pc

Variant(p) == request[p].variant
Body(p) == request[p].body

\* a mutant: the failure counter declared at module level, one for all
\* invocations
LocalWithSharedRetries(p) ==
    [pc |-> pc[p], labelName |-> labelName[p], newLabelId |-> newLabelId[p],
     retries |-> CHOOSE n \in Range(retries) : \A m \in Range(retries) : n >= m,
     success |-> success[p], note |-> note[p],
     calls |-> calls[p], replies |-> replies[p], waits |-> waits[p],
     response |-> response[p], uuids |-> issued[p]]

\* the local variables of invocation p
Local(p) ==
    [pc |-> pc[p], labelName |-> labelName[p], newLabelId |-> newLabelId[p],
     retries |-> retries[p], success |-> success[p], note |-> note[p],
     calls |-> calls[p], replies |-> replies[p], waits |-> waits[p],
     response |-> response[p], uuids |-> issued[p]]

\* Invocation p moves to local state s.
Commit(p, s) ==
    /\ pc' = [pc EXCEPT ![p] = s.pc]
    /\ labelName' = [labelName EXCEPT ![p] = s.labelName]
    /\ newLabelId' = [newLabelId EXCEPT ![p] = s.newLabelId]
    /\ retries' = [retries EXCEPT ![p] = s.retries]
    /\ success' = [success EXCEPT ![p] = s.success]
    /\ note' = [note EXCEPT ![p] = s.note]
    /\ calls' = [calls EXCEPT ![p] = s.calls]
    /\ replies' = [replies EXCEPT ![p] = s.replies]
    /\ waits' = [waits EXCEPT ![p] = s.waits]
    /\ response' = [response EXCEPT ![p] = s.response]
    /\ issued' = [issued EXCEPT ![p] = s.uuids]
    /\ UNCHANGED <<env, request>>

\* Every invocation of P is at its entry.
AtEntry(P) ==
    /\ pc = [p \in P |-> InitialLocal.pc]
    /\ labelName = [p \in P |-> InitialLocal.labelName]
    /\ newLabelId = [p \in P |-> InitialLocal.newLabelId]
    /\ retries = [p \in P |-> InitialLocal.retries]
    /\ success = [p \in P |-> InitialLocal.success]
    /\ note = [p \in P |-> InitialLocal.note]
    /\ calls = [p \in P |-> InitialLocal.calls]
    /\ replies = [p \in P |-> InitialLocal.replies]
    /\ waits = [p \in P |-> InitialLocal.waits]
    /\ response = [p \in P |-> InitialLocal.response]
    /\ issued = [p \in P |-> InitialLocal.uuids]

\* One invocation per process of P, each of any variant with any request,
\* under any environment.
InitOn(P, requests, envs) ==
    /\ env \in envs
    /\ request \in [P -> requests]
    /\ \A p \in P : IF request[p].variant = "annotation" THEN env \in AnnotationEnvs
                    ELSE env \in HighlightEnvs
    /\ AtEntry(P)

Init == InitOn({1}, Requests, Envs)

\* uuidv4() returns a fresh random value: one it has returned to no invocation
\* before.
FreshUuids == Uuids \ UNION {Range(issued[q]) : q \in DOMAIN issued}

\* The request arrives: the handler runs to its first outbound call, or to
\* its response.
Receive(p) ==
    /\ pc[p] = "start"
    /\ \E labelUuid \in FreshUuids :
        Commit(p, CASE Variant(p) = "createAdd" ->
                          CreateAddReceive(Local(p), Body(p), env, labelUuid)
                    [] Variant(p) = "setLabelsRetry" ->
                          RetryReceive(Local(p), Body(p), env, labelUuid)
                    [] Variant(p) = "highlightCreated" ->
                          HighlightCreatedReceive(Local(p), Body(p), env, labelUuid)
                    [] Variant(p) = "annotation" ->
                          AnnotationReceive(Local(p), Body(p), env))

\* The article query returns (annotation handler).
ArticleReturns(p) ==
    /\ pc[p] = "article"
    /\ \E r \in ArticleReplies : Commit(p, AnnotationArticleReturns(Local(p), env, r))

\* The completion call returns (annotation handler).
CompletionReturns(p) ==
    /\ pc[p] = "completion"
    /\ \E r \in CompletionReplies, labelUuid \in FreshUuids :
        Commit(p, AnnotationCompletionReturns(Local(p), env, r, labelUuid))

\* The create-label call returns.
CreateLabelReturns(p) ==
    /\ pc[p] = "createLabel"
    /\ CASE Variant(p) = "createAdd" ->
                \E r \in CreateLabelReplies :
                    Commit(p, CreateAddCreateLabelReturns(Local(p), Body(p), env, r))
         [] Variant(p) = "setLabelsRetry" ->
                \E r \in CreateLabelReplies :
                    Commit(p, RetryCreateLabelReturns(Local(p), Body(p), env, r))
         [] Variant(p) = "highlightCreated" ->
                \E r \in CreateLabelReplies :
                    Commit(p, HighlightCreatedCreateLabelReturns(Local(p), Body(p), env, r))
         [] Variant(p) = "annotation" ->
                \E r \in AnnotationReplies, id \in FreshUuids :
                    Commit(p, AnnotationCreateLabelReturns(Local(p), env, r, id))

\* The note mutation (create- or update-highlight) returns (annotation handler).
HighlightReturns(p) ==
    /\ pc[p] = "highlight"
    /\ \E r \in AnnotationReplies : Commit(p, AnnotationHighlightReturns(Local(p), env, r))

\* The add-label-to-highlight call returns.
AddLabelReturns(p) ==
    /\ pc[p] = "addLabel"
    /\ CASE Variant(p) = "createAdd" ->
                \E r \in MutationReplies : Commit(p, CreateAddAddLabelReturns(Local(p), r))
         [] Variant(p) = "highlightCreated" ->
                \E r \in MutationReplies :
                    Commit(p, HighlightCreatedAddLabelReturns(Local(p), r))
         [] Variant(p) = "annotation" ->
                \E r \in AnnotationReplies :
                    Commit(p, AnnotationAddLabelReturns(Local(p), r))

\* A set-labels attempt returns (retry handler).
SetLabelsReturns(p) ==
    /\ pc[p] = "setLabels"
    /\ \E r \in MutationReplies :
        Commit(p, RetrySetLabelsReturns(Local(p), Body(p), env, r))

\* The backoff delay elapses (retry handler).
DelayElapses(p) ==
    /\ pc[p] = "delay"
    /\ Commit(p, RetryDelayElapses(Local(p), Body(p), env))

Next ==
    \/ \E p \in Procs : Receive(p)
    \/ \E p \in Procs : ArticleReturns(p)
    \/ \E p \in Procs : CompletionReturns(p)
    \/ \E p \in Procs : CreateLabelReturns(p)
    \/ \E p \in Procs : HighlightReturns(p)
    \/ \E p \in Procs : AddLabelReturns(p)
    \/ \E p \in Procs : SetLabelsReturns(p)
    \/ \E p \in Procs : DelayElapses(p)

Spec == Init /\ [][Next]_vars

\* Two invocations, interleaved at their suspension points: of any of the
\* handlers, for the same or for different events that the handler goes on
\* to process (and one it does not), under one environment that configures everything; the
\* remote answers every call in one of a few ways.
TwoRequests ==
    {[variant |-> v,
      body |-> [json |-> "object", action |-> "created",
                highlight |-> [is |-> "object", id |-> h], label |-> NoLabel,
                page |-> NoPage]] : v \in CreatedVariants, h \in {"h1", "h2"}}
    \cup {[variant |-> "setLabelsRetry",
           body |-> [json |-> "object", action |-> "LABEL_ADDED",
                     highlight |-> [is |-> "object", id |-> "h1"], label |-> NoLabel,
                     page |-> NoPage]],
          [variant |-> "highlightCreated",
           body |-> [json |-> "object", action |-> "HIGHLIGHT_CREATED",
                     highlight |-> [is |-> "object", id |-> "h1"], label |-> NoLabel,
                     page |-> NoPage]],
          [variant |-> "annotation",
           body |-> [json |-> "object", action |-> "PAGE_CREATED",
                     highlight |-> NoHighlight, label |-> NoLabel,
                     page |-> [is |-> "object", id |-> "a2"]]]}

TwoEnv == [OMNIVORE_API_KEY |-> "key", OMNIVORE_ANNOTATE_LABEL |-> "summarize",
           OPENAI_PROMPT |-> "prompt-from-env", OPENAI_SETTINGS |-> Undefined,
           OPENAI_API_KEY |-> "sk"]

TwoReplies ==
    {FetchRejects, Reply("json", FALSE, <<>>, "missing"), Reply("json", FALSE, <<>>, "L1"),
     Reply("json", TRUE, OneError, "missing"),
     ArticleReply("json", FALSE, <<>>,
                  [is |-> "object", title |-> "T", contentLength |-> 280,
                   labels |-> <<>>, highlights |-> <<>>]),
     ArticleReply("json", FALSE, <<>>,
                  [is |-> "object", title |-> "T", contentLength |-> 281,
                   labels |-> <<>>,
                   highlights |-> <<[id |-> "n1", shortId |-> "n1-short",
                                     type |-> "NOTE"]>>]),
     CompletionReply("json", 1, TRUE, <<>>)}

InitTwo ==
    /\ env = TwoEnv
    /\ request \in [{1, 2} -> TwoRequests]
    /\ AtEntry({1, 2})

FewReplies == \A p \in Procs : \A k \in DOMAIN replies[p] : replies[p][k] \in TwoReplies

NextTwo ==
    \/ \E p \in Procs : Receive(p) /\ FewReplies'
    \/ \E p \in Procs : ArticleReturns(p) /\ FewReplies'
    \/ \E p \in Procs : CompletionReturns(p) /\ FewReplies'
    \/ \E p \in Procs : CreateLabelReturns(p) /\ FewReplies'
    \/ \E p \in Procs : HighlightReturns(p) /\ FewReplies'
    \/ \E p \in Procs : AddLabelReturns(p) /\ FewReplies'
    \/ \E p \in Procs : SetLabelsReturns(p) /\ FewReplies'
    \/ \E p \in Procs : DelayElapses(p) /\ FewReplies'

SpecTwo == InitTwo /\ [][NextTwo]_vars

\* Every outbound call eventually returns or fails, and every delay elapses:
\* a suspended invocation is eventually resumed.
FairSpec == Spec /\ WF_vars(Next)

----------------------------------------------------------------------------
(* Vocabulary of the properties *)

Done(p) == pc[p] = "done"

\* the action each highlight handler recognizes as a creation
CreationKind(v) == IF v = "highlightCreated" THEN "HIGHLIGHT_CREATED" ELSE "created"

\* text contains the pieces of part, adjacent and in order
Mentions(text, part) ==
    \E k \in 1..(Len(text) - Len(part) + 1) : SubSeq(text, k, k + Len(part) - 1) = part

\* the positions of the calls of operation op
CallsOf(p, op) == {k \in DOMAIN calls[p] : calls[p][k].op = op}

\* reply k answers call k
Answered(p, op) == {k \in CallsOf(p, op) : k \in DOMAIN replies[p]}

\* a reply that is a JSON object without an `errors` field
Succeeded(r) == r.t = "json" /\ ~r.hasErrors
\* a reply that is a JSON object with an `errors` field
LogicalError(r) == r.t = "json" /\ r.hasErrors

KeyMissing == Falsy(env.OMNIVORE_API_KEY)

\* a highlight event the handler goes on to process
Processable(p) ==
    /\ Variant(p) \in HighlightVariants
    /\ Body(p).json = "object"
    /\ Body(p).action = CreationKind(Variant(p))
    /\ Body(p).highlight.is = "object"
    /\ Truthy(Body(p).highlight.id)

ExhaustedText ==
    <<"set highlight labels failed after ", "3", " attempts; check the server logs">>

----------------------------------------------------------------------------
(* Properties *)

\* C1: in each highlight handler, an event whose action is not the handler's
\* creation kind is answered with status 200 as soon as it is handled, and
\* no outbound call is ever issued for it.
C1_OtherActionIsNoOp ==
    \A p \in Procs :
        (/\ Variant(p) \in HighlightVariants
         /\ Body(p).json = "object"
         /\ Body(p).action # CreationKind(Variant(p)))
        => /\ calls[p] = <<>>
           /\ pc[p] \in {"start", "done"}
           /\ Done(p) => response[p].status = 200

C1_Witness ==
    \E p \in Procs :
        /\ Variant(p) = "highlightCreated"
        /\ Body(p).json = "object"
        /\ Body(p).action = "created"
        /\ Body(p).highlight.is = "object" /\ Body(p).highlight.id = "h1"
        /\ Done(p) /\ response[p].status = 200

\* C2: in each highlight handler, a creation event without a highlight, or
\* with a highlight whose id is missing or empty, is answered with status 200
\* as soon as it is handled, and no outbound call is ever issued for it.
C2_NoTargetIsNoOp ==
    \A p \in Procs :
        (/\ Variant(p) \in HighlightVariants
         /\ Body(p).json = "object"
         /\ Body(p).action = CreationKind(Variant(p))
         /\ (Body(p).highlight.is # "object" \/ Body(p).highlight.id \in {Undefined, ""}))
        => /\ calls[p] = <<>>
           /\ pc[p] \in {"start", "done"}
           /\ Done(p) => response[p].status = 200

C2_Witness ==
    \E p \in Procs :
        /\ Variant(p) = "setLabelsRetry"
        /\ Body(p).action = "created"
        /\ Body(p).highlight.is = "object" /\ Body(p).highlight.id = ""
        /\ ~KeyMissing
        /\ Done(p) /\ response[p].status = 200

\* C3: with the API key missing no handler ever issues an outbound call, and
\* a highlight event that would otherwise be processed is answered with
\* status 500.  (The HIGHLIGHT_CREATED and annotation handlers send their
\* calls with an empty Authorization header instead.)
C3_MissingKeyIsFatal ==
    \A p \in Procs :
        KeyMissing
        => /\ calls[p] = <<>>
           /\ (Processable(p) /\ pc[p] # "start")
                  => (Done(p) /\ response[p].status = 500)

\* C4: in the retry handler, when every set-labels attempt is answered with
\* an `errors` field, the handler ends after exactly 3 attempts with the
\* status 500 exhaustion response, having waited 2000 ms and then 4000 ms.
C4_ExhaustionAfterThree ==
    \A p \in Procs :
        (/\ Variant(p) = "setLabelsRetry"
         /\ Done(p)
         /\ CallsOf(p, "setLabelsForHighlight") # {}
         /\ \A k \in CallsOf(p, "setLabelsForHighlight") : LogicalError(replies[p][k]))
        => /\ Cardinality(CallsOf(p, "setLabelsForHighlight")) = 3
           /\ response[p] = Response(500, ExhaustedText)
           /\ waits[p] = <<2000, 4000>>

C4_Witness ==
    \E p \in Procs :
        /\ Variant(p) = "setLabelsRetry"
        /\ Done(p)
        /\ Cardinality(CallsOf(p, "setLabelsForHighlight")) = 3
        /\ \A k \in CallsOf(p, "setLabelsForHighlight") : LogicalError(replies[p][k])
        /\ response[p].status = 500

\* C5: in the retry handler, once a set-labels attempt succeeds the handler
\* has ended: that attempt is the last outbound call, it is attempt N <= 3
\* after N-1 failed attempts, and the response has status 200 and names the
\* tag generated in this invocation.
C5_SuccessEndsTheLoop ==
    \A p \in Procs :
        \A k \in Answered(p, "setLabelsForHighlight") :
            (Variant(p) = "setLabelsRetry" /\ Succeeded(replies[p][k]))
            => /\ Done(p)
               /\ k = Len(calls[p])
               /\ Cardinality(CallsOf(p, "setLabelsForHighlight")) \in 1..3
               /\ \A j \in CallsOf(p, "setLabelsForHighlight") :
                      j # k => ~Succeeded(replies[p][j])
               /\ response[p].status = 200
               /\ labelName[p] # <<>>
               /\ Mentions(response[p].text, labelName[p])

C5_Witness ==
    \E p \in Procs :
        /\ Variant(p) = "setLabelsRetry"
        /\ Done(p)
        /\ Cardinality(CallsOf(p, "setLabelsForHighlight")) = 3
        /\ Succeeded(replies[p][Len(replies[p])])
        /\ response[p].status = 200

\* C6: in the create+add handler, a 'created' event for highlight h1 with the
\* key configured and every reply a success ends with exactly two calls,
\* create-label then add-label-to-highlight on h1, both carrying the tag
\* uuid:<uuid> of this invocation, and with the status 200 response whose
\* text names that tag and confirms its target: it says the tag was added to
\* the highlight, the highlight of the event, h1, that the second call names.
C6_TwoCallsAndTag ==
    \A p \in Procs :
        (/\ Variant(p) = "createAdd"
         /\ Processable(p) /\ Body(p).highlight.id = "h1"
         /\ ~KeyMissing
         /\ Done(p)
         /\ \A k \in DOMAIN replies[p] : Succeeded(replies[p][k]))
        => /\ Len(calls[p]) = 2
           /\ calls[p][1].op = "createLabel"
           /\ calls[p][2].op = "addLabelToHighlight"
           /\ calls[p][2].highlightId = "h1"
           /\ \E u \in Uuids :
                 /\ labelName[p] = <<"uuid:", u>>
                 /\ calls[p][1].name = labelName[p]
                 /\ calls[p][2].label = labelName[p]
                 /\ Mentions(response[p].text, labelName[p])
                 /\ Mentions(response[p].text, <<" to highlight">>)
                 /\ response[p] =
                        Response(200, <<"added label ", "uuid:", u, " to highlight">>)

C6_Witness ==
    \E p \in Procs :
        /\ Variant(p) = "createAdd"
        /\ Processable(p) /\ Body(p).highlight.id = "h1"
        /\ ~KeyMissing
        /\ Done(p)
        /\ Len(replies[p]) = 2
        /\ \A k \in DOMAIN replies[p] : Succeeded(replies[p][k])

\* C7: in every handler, a status 200 response that names the tag is
\* returned only after the call attaching the tag was answered without an
\* `errors` field, and after no create-label or attach call was answered
\* with one.  (The HIGHLIGHT_CREATED and annotation handlers do not inspect
\* the replies.)
AttachOps == {"addLabelToHighlight", "setLabelsForHighlight"}

C7_SuccessMeansAttached ==
    \A p \in Procs :
        (/\ Done(p)
         /\ response[p].status = 200
         /\ labelName[p] # <<>>
         /\ Mentions(response[p].text, labelName[p]))
        => /\ \E k \in DOMAIN replies[p] :
                 calls[p][k].op \in AttachOps /\ Succeeded(replies[p][k])
           /\ \A k \in DOMAIN replies[p] :
                 calls[p][k].op \in AttachOps \cup {"createLabel"}
                 => ~LogicalError(replies[p][k])

\* C8: in the 'created' handlers, an `errors` field in the reply to
\* create-label (both handlers) or to add-label-to-highlight (create+add)
\* ends the invocation: status 500, a text that carries the remote errors,
\* that call issued once, and no call after it.
C8_ErrorsAreTerminal ==
    \A p \in Procs :
        \A k \in DOMAIN replies[p] :
            (/\ Variant(p) \in CreatedVariants
             /\ calls[p][k].op \in {"createLabel", "addLabelToHighlight"}
             /\ LogicalError(replies[p][k]))
            => /\ Done(p)
               /\ k = Len(calls[p])
               /\ Cardinality(CallsOf(p, calls[p][k].op)) = 1
               /\ response[p].status = 500
               /\ Mentions(response[p].text,
                           <<"[">> \o replies[p][k].errors \o <<"]">>)

C8_Witness ==
    \E p \in Procs :
        /\ Variant(p) = "createAdd"
        /\ Done(p)
        /\ Len(replies[p]) = 2
        /\ LogicalError(replies[p][2])
        /\ replies[p][2].errors = <<"1", "2">>
        /\ response[p].status = 500

\* C9: in the annotation handler, no invocation in which a step failed
\* (a call rejected or was answered with something other than an object
\* free of `errors`, the article was missing or too short, the completion
\* had no choice) ends with status 200.  (The replies to create-label, to
\* the note mutation and to add-label are not inspected.)
StepFailed(p) ==
    \/ \E k \in DOMAIN replies[p] :
          /\ calls[p][k].op # "completion"
          /\ ~Succeeded(replies[p][k])
    \/ \E k \in Answered(p, "article") :
          \/ replies[p][k].article.is = "missing"
          \/ replies[p][k].article.contentLength < 280
    \/ \E k \in Answered(p, "completion") :
          replies[p][k].t = "reject" \/ replies[p][k].choices = 0

C9_NoPartialSuccess ==
    \A p \in Procs :
        (Variant(p) = "annotation" /\ Done(p) /\ StepFailed(p))
        => response[p].status = 500

\* C10: in the retry handler every failed set-labels attempt, logical or
\* transport, is counted in the loop: at most 3 attempts are made, the
\* failures so far equal the counter, failure k < 3 is followed by the delay
\* 2000 * k, and the invocation never ends in the top-level catch once the
\* loop is entered; three failures end in the exhaustion response.
C10_TransportFailuresAreCounted ==
    \A p \in Procs :
        (Variant(p) = "setLabelsRetry" /\ CallsOf(p, "setLabelsForHighlight") # {})
        => LET attempts == CallsOf(p, "setLabelsForHighlight")
               failed == {k \in Answered(p, "setLabelsForHighlight") :
                             ~Succeeded(replies[p][k])}
               n == Cardinality(failed)
           IN /\ Cardinality(attempts) <= 3
              /\ retries[p] = n
              /\ waits[p] = [k \in 1..(IF n < 3 THEN n ELSE 2) |-> 2000 * k]
              /\ Done(p) => ~Mentions(response[p].text,
                                      <<"error handling Omnivore webhook: ">>)
              /\ (Done(p) /\ n = 3) => response[p] = Response(500, ExhaustedText)
              /\ n = 3 => Done(p)

C10_Witness ==
    \E p \in Procs :
        /\ Variant(p) = "setLabelsRetry"
        /\ Done(p)
        /\ Len(replies[p]) = 4
        /\ replies[p][2] = FetchRejects
        /\ LogicalError(replies[p][3])
        /\ replies[p][4] = NotJson
        /\ response[p] = Response(500, ExhaustedText)

\* C11: every invocation ends, and ends with one Response: while it runs
\* there is none, when it has ended there is one with an HTTP status (no
\* exception left the handler), nothing changes it afterwards, and under the
\* assumption that every call returns or fails the end is reached.
C11_OneResponseAlways ==
    /\ [](\A p \in Procs :
             /\ Done(p) => response[p].status \in {200, 400, 500}
             /\ ~Done(p) => response[p] = NoResponse)
    /\ [][\A p \in Procs : Done(p) => (pc'[p] = "done" /\ response'[p] = response[p])]_vars
    /\ <>(\A p \in Procs : Done(p))

C11_Witness ==
    \E p \in Procs :
        /\ Variant(p) = "createAdd"
        /\ Done(p)
        /\ Len(replies[p]) = 2
        /\ replies[p][2] = NotJson
        /\ response[p] = Response(500, <<"error handling Omnivore webhook: ",
                                         "Unexpected token in JSON">>)

\* C12: every tag is 'uuid:' followed by a value uuidv4() returned to this
\* invocation, a fresh one, and the tags of two distinct invocations differ,
\* whether they run concurrently or handle the same event again.
C12_TagsDistinct ==
    \A p \in Procs :
        labelName[p] # <<>>
        => /\ issued[p] # <<>>
           /\ issued[p][1] \in Uuids
           /\ labelName[p] = <<"uuid:", issued[p][1]>>
           /\ \A q \in Procs \ {p} :
                 /\ issued[p][1] \notin Range(issued[q])
                 /\ labelName[q] # <<>> => labelName[q] # labelName[p]

\* a redelivery of the same event, running concurrently, gets another tag
C12_Witness ==
    /\ Procs = {1, 2}
    /\ request[1] = request[2]
    /\ labelName[1] = <<"uuid:", "uuid-1">>
    /\ labelName[2] = <<"uuid:", "uuid-2">>
    /\ pc[1] = "createLabel" /\ pc[2] = "createLabel"

\* the invocation issued calls and no tag-attaching call of it succeeded
NotAttached(p) ==
    /\ calls[p] # <<>>
    /\ ~\E k \in DOMAIN replies[p] :
           calls[p][k].op \in AttachOps /\ Succeeded(replies[p][k])

\* the part of C13 about the set of statuses: a response has status 200 or
\* 500, never 400 or another one
C13_OnlyTwoStatuses ==
    \A p \in Procs : Done(p) => response[p].status \in {200, 500}

\* C13: every response has status 200 or 500 and no other (never 400), 200
\* for the no-op outcomes, and 500 for every failure outcome: an invocation
\* that started its calls and ended without the tag attached has status 500.
C13_StatusFollowsOutcome ==
    /\ C13_OnlyTwoStatuses
    /\ \A p \in Procs :
          Done(p)
          => /\ (calls[p] = <<>> /\ Body(p).json = "object"
                 /\ Variant(p) \in HighlightVariants /\ ~Processable(p))
                => response[p].status = 200
             /\ NotAttached(p) => response[p].status = 500

\* C14: a request whose body is not JSON is answered at once with status 500
\* by every handler: no outbound call, no retry, no delay.
C14_UnparsableBodyIs500 ==
    \A p \in Procs :
        Body(p).json = "invalid"
        => /\ calls[p] = <<>> /\ replies[p] = <<>>
           /\ retries[p] = 0 /\ waits[p] = <<>>
           /\ pc[p] \in {"start", "done"}
           /\ Done(p) => /\ response[p].status = 500
                         /\ Mentions(response[p].text, <<"Unexpected token in JSON">>)

C14_Witness ==
    \E p \in Procs :
        /\ Variant(p) = "setLabelsRetry"
        /\ Body(p) = InvalidBody
        /\ Done(p)
        /\ response[p] = Response(500, <<"error handling Omnivore webhook: ",
                                         "Unexpected token in JSON">>)
        /\ calls[p] = <<>>

\* the article reply of an annotation invocation, once it is read without error
ArticleRead(p) ==
    /\ Variant(p) = "annotation"
    /\ replies[p] # <<>>
    /\ ~Throws(replies[p][1]) /\ ~DerefThrows(replies[p][1])
    /\ replies[p][1].article.is = "object"

TooShortText == <<"article content under 280 characters, nothing to summarize">>

\* C15: in the annotation handler an article of fewer than 280 characters
\* ends the invocation with an error response (status 500) and the article
\* query stays its only outbound call; an article of 280 characters or more
\* is not rejected for its length, and the completion call follows when the
\* completion service is configured.
C15_ShortArticleRejected ==
    \A p \in Procs :
        ArticleRead(p)
        => IF replies[p][1].article.contentLength < 280
           THEN /\ Done(p)
                /\ response[p].status = 500
                /\ Mentions(response[p].text, TooShortText)
                /\ Len(calls[p]) = 1 /\ calls[p][1].op = "article"
           ELSE /\ ~Mentions(response[p].text, TooShortText)
                /\ (env.OPENAI_API_KEY # Undefined /\ env.OPENAI_SETTINGS # "not json")
                   => /\ Len(calls[p]) >= 2
                      /\ calls[p][2].op = "completion"

C15_Witness ==
    \E p \in Procs :
        /\ ArticleRead(p)
        /\ replies[p][1].article.contentLength = 279
        /\ Done(p)
        /\ response[p].status = 500
        /\ [k \in DOMAIN calls[p] |-> calls[p][k].op] = <<"article">>

\* the operations of the calls of p, in the order of their issue
OpsOf(p) == [k \in DOMAIN calls[p] |-> calls[p][k].op]

IsPrefix(a, b) == Len(a) <= Len(b) /\ a = SubSeq(b, 1, Len(a))

\* the suspension points at which a call is in flight
AwaitingReply == {"article", "completion", "createLabel", "highlight", "addLabel",
                  "setLabels"}

\* C16: within an invocation at most one outbound call is in flight, and
\* exactly when the handler is suspended on it; a call is issued only when
\* every earlier call has been answered, one call at a time; the annotation
\* handler's calls are, in order, the article query, the completion, the
\* create-label, the note's creation or update, and the add-label.
C16_CallsAreSequential ==
    /\ [](\A p \in Procs :
             /\ Len(calls[p]) - Len(replies[p]) = (IF pc[p] \in AwaitingReply THEN 1 ELSE 0)
             /\ Variant(p) = "annotation"
                => \E m \in {"createHighlight", "updateHighlight"} :
                       IsPrefix(OpsOf(p), <<"article", "completion", "createLabel", m,
                                            "addLabelToHighlight">>))
    /\ [][\A p \in Procs :
             /\ IsPrefix(calls[p], calls'[p]) /\ IsPrefix(replies[p], replies'[p])
             /\ Len(calls'[p]) > Len(calls[p])
                => /\ Len(calls'[p]) = Len(calls[p]) + 1
                   /\ Len(replies'[p]) = Len(calls[p])]_vars

C16_Witness ==
    \E p \in Procs :
        /\ Variant(p) = "annotation"
        /\ pc[p] = "addLabel"
        /\ OpsOf(p) = <<"article", "completion", "createLabel", "createHighlight",
                        "addLabelToHighlight">>
        /\ Len(replies[p]) = 4

\* the highlights of the article fetched by p, and those of type NOTE
HighlightsOf(p) == replies[p][1].article.highlights
NotesOf(p) == {k \in DOMAIN HighlightsOf(p) : HighlightsOf(p)[k].type = "NOTE"}

\* C17: the annotation handler's fourth call updates the article's (first)
\* highlight of type NOTE when there is one, and otherwise creates a highlight
\* of type NOTE whose id is a new uuidv4() value; its fifth call, issued after
\* the fourth was answered, adds the label's tag to the highlight of that id.
C17_NoteUpdatedOrCreated ==
    \A p \in Procs :
        (Variant(p) = "annotation" /\ Len(calls[p]) >= 4)
        => /\ IF NotesOf(p) # {}
              THEN /\ calls[p][4].op = "updateHighlight"
                   /\ \E k \in NotesOf(p) :
                         /\ \A j \in NotesOf(p) : k <= j
                         /\ calls[p][4].id = HighlightsOf(p)[k].id
                         /\ calls[p][4].shortId = HighlightsOf(p)[k].shortId
              ELSE /\ calls[p][4].op = "createHighlight"
                   /\ calls[p][4].type = "NOTE"
                   /\ Len(issued[p]) = 2
                   /\ calls[p][4].id = issued[p][2]
           /\ calls[p][4].articleId = calls[p][1].slug
           /\ Len(calls[p]) >= 5
              => /\ Len(replies[p]) >= 4
                 /\ calls[p][5].op = "addLabelToHighlight"
                 /\ calls[p][5].highlightId = calls[p][4].id
                 /\ calls[p][5].label = labelName[p]

C17_Witness ==
    \E p \in Procs :
        /\ Variant(p) = "annotation"
        /\ Done(p) /\ response[p].status = 200
        /\ Len(HighlightsOf(p)) = 3
        /\ calls[p][4].op = "updateHighlight" /\ calls[p][4].id = "n2"
        /\ calls[p][5].highlightId = "n2"

\* the stages of the retry handler: received (0), tag generated and label
\* being created (1), set-labels attempts (2), answered (3)
StageOf(at) ==
    CASE at = "start" -> 0
      [] at = "createLabel" -> 1
      [] at \in {"setLabels", "delay"} -> 2
      [] at = "done" -> 3

\* the set-labels attempts issued so far
Attempts(p) == Cardinality(CallsOf(p, "setLabelsForHighlight"))

\* C18: an invocation of the retry handler only moves forward: from its entry
\* through the generation of the tag and the create-label call to one, two or
\* three set-labels attempts and then its one response; the tag, the calls
\* issued and the failures counted are never taken back; once answered,
\* nothing of the invocation changes and no call follows; and an invocation
\* that has not started has nothing from the invocations that ran before it.
C18_ForwardOnly ==
    /\ [](\A p \in Procs :
             Variant(p) = "setLabelsRetry"
             => /\ pc[p] \in {"start", "createLabel", "setLabels", "delay", "done"}
                /\ pc[p] = "start" => Local(p) = InitialLocal
                /\ StageOf(pc[p]) \in {1, 2} => labelName[p] = <<"uuid:", issued[p][1]>>
                /\ StageOf(pc[p]) < 2 => Attempts(p) = 0
                /\ StageOf(pc[p]) = 2
                   => /\ Attempts(p) \in 1..3
                      /\ Attempts(p) = retries[p] + (IF pc[p] = "setLabels" THEN 1 ELSE 0)
                      /\ OpsOf(p)[1] = "createLabel"
                /\ Attempts(p) <= 3)
    /\ [][\A p \in Procs :
             Variant(p) = "setLabelsRetry"
             => /\ StageOf(pc'[p]) >= StageOf(pc[p])
                /\ pc[p] # pc'[p] => pc[p] # "done"
                /\ retries'[p] >= retries[p]
                /\ IsPrefix(calls[p], calls'[p])
                /\ StageOf(pc[p]) >= 1 => labelName'[p] = labelName[p]
                /\ Done(p) => Local(p)' = Local(p)]_vars

\* one invocation has used its three attempts and is answered; a later one,
\* not yet started, is at its initial state
C18_Witness ==
    /\ Procs = {1, 2}
    /\ Variant(1) = "setLabelsRetry" /\ Variant(2) = "setLabelsRetry"
    /\ Done(1) /\ Attempts(1) = 3 /\ retries[1] = 3
    /\ response[1].status = 500
    /\ pc[2] = "start" /\ Local(2) = InitialLocal

\* One step of a handler run on its own: the segment of variant v that
\* starts where s is suspended, given the reply r it was waiting for and the
\* value u that uuidv4() returns in it.
AloneStep(v, body, e, s, r, u) ==
    CASE s.pc = "start" ->
            (CASE v = "createAdd" -> CreateAddReceive(s, body, e, u)
               [] v = "setLabelsRetry" -> RetryReceive(s, body, e, u)
               [] v = "highlightCreated" -> HighlightCreatedReceive(s, body, e, u)
               [] v = "annotation" -> AnnotationReceive(s, body, e))
      [] s.pc = "article" -> AnnotationArticleReturns(s, e, r)
      [] s.pc = "completion" -> AnnotationCompletionReturns(s, e, r, u)
      [] s.pc = "createLabel" ->
            (CASE v = "createAdd" -> CreateAddCreateLabelReturns(s, body, e, r)
               [] v = "setLabelsRetry" -> RetryCreateLabelReturns(s, body, e, r)
               [] v = "highlightCreated" -> HighlightCreatedCreateLabelReturns(s, body, e, r)
               [] v = "annotation" -> AnnotationCreateLabelReturns(s, e, r, u))
      [] s.pc = "highlight" -> AnnotationHighlightReturns(s, e, r)
      [] s.pc = "addLabel" ->
            (CASE v = "createAdd" -> CreateAddAddLabelReturns(s, r)
               [] v = "highlightCreated" -> HighlightCreatedAddLabelReturns(s, r)
               [] v = "annotation" -> AnnotationAddLabelReturns(s, r))
      [] s.pc = "setLabels" -> RetrySetLabelsReturns(s, body, e, r)
      [] s.pc = "delay" -> RetryDelayElapses(s, body, e)

\* The local state of a handler of variant v run on its own for n steps on
\* request body under environment e, when its calls are answered by rs, in
\* order, and uuidv4() returns the values of us, in order.
RECURSIVE Alone(_, _, _, _, _, _)
Alone(v, body, e, rs, us, n) ==
    IF n = 0 THEN InitialLocal
    ELSE LET s == Alone(v, body, e, rs, us, n - 1)
             r == rs[Len(s.replies) + 1]
             u == IF Len(s.uuids) < Len(us) THEN us[Len(s.uuids) + 1] ELSE Undefined
         IN AloneStep(v, body, e, s, r, u)

\* the steps invocation p has taken: its start, one for each reply it has
\* received, one for each delay that has elapsed
StepsTaken(p) ==
    (IF pc[p] = "start" THEN 0 ELSE 1) + Len(replies[p])
    + Len(waits[p]) - (IF pc[p] = "delay" THEN 1 ELSE 0)

\* C19: when two invocations run interleaved at their suspension points, the
\* calls, the counters and the response of each are those of the handler run
\* on its own on the same request, under the same environment, with the same
\* replies to its calls (and the same values from uuidv4()); and a step of
\* one invocation changes nothing of the other.
C19_AsIfAlone ==
    /\ [](\A p \in Procs :
             LET a == Alone(Variant(p), Body(p), env, replies[p], issued[p],
                            StepsTaken(p))
             IN /\ calls[p] = a.calls
                /\ response[p] = a.response
                /\ pc[p] = a.pc
                /\ retries[p] = a.retries /\ success[p] = a.success
                /\ waits[p] = a.waits
                /\ labelName[p] = a.labelName /\ newLabelId[p] = a.newLabelId
                /\ note[p] = a.note)
    /\ [][\E p \in Procs : \A q \in Procs \ {p} :
             /\ calls'[q] = calls[q] /\ replies'[q] = replies[q]
             /\ response'[q] = response[q] /\ pc'[q] = pc[q]
             /\ retries'[q] = retries[q] /\ success'[q] = success[q]
             /\ waits'[q] = waits[q] /\ issued'[q] = issued[q]
             /\ labelName'[q] = labelName[q] /\ newLabelId'[q] = newLabelId[q]
             /\ note'[q] = note[q]]_vars

\* two invocations of the retry handler for the same event have both run to
\* their response: one used up its three attempts, the other succeeded at
\* its second
C19_Witness ==
    /\ Procs = {1, 2}
    /\ Variant(1) = "setLabelsRetry" /\ request[2] = request[1]
    /\ Done(1) /\ response[1].status = 500 /\ retries[1] = 3
    /\ Done(2) /\ response[2].status = 200 /\ retries[2] = 1
    /\ waits[1] = <<2000, 4000>> /\ waits[2] = <<2000>>

\* the labels of the article fetched by p whose name, up to its first ':',
\* is the annotate-label of the environment ("" when it is not set)
MatchingLabels(p) ==
    LET ls == replies[p][1].article.labels
        wanted == IF env.OMNIVORE_ANNOTATE_LABEL = Undefined THEN ""
                  ELSE env.OMNIVORE_ANNOTATE_LABEL
    IN {k \in DOMAIN ls : ls[k].name[1] = wanted}

Present(v) == v # Undefined /\ v # Null /\ v # ""

\* C20: the prompt of the annotation handler's completion call is the
\* description of the (first) article label matching the annotate-label when
\* that description is present and not empty, otherwise OPENAI_PROMPT of the
\* environment when it is set and not empty, otherwise the default prompt.
C20_PromptPrecedence ==
    \A p \in Procs :
        (Variant(p) = "annotation" /\ Len(calls[p]) >= 2)
        => LET ls == replies[p][1].article.labels
               first == CHOOSE k \in MatchingLabels(p) : \A j \in MatchingLabels(p) : k <= j
           IN /\ calls[p][2].op = "completion"
              /\ calls[p][2].prompt =
                    (IF MatchingLabels(p) # {} /\ Present(ls[first].description)
                        THEN ls[first].description
                     ELSE IF Present(env.OPENAI_PROMPT) THEN env.OPENAI_PROMPT
                     ELSE "return a tweet-length TL;DR of the following article")

\* a label with a description and a prompt in the environment: the label's wins
C20_Witness ==
    \E p \in Procs :
        /\ Variant(p) = "annotation"
        /\ Len(calls[p]) >= 2
        /\ env.OPENAI_PROMPT = "prompt-from-env"
        /\ MatchingLabels(p) = {2}
        /\ calls[p][2].prompt = "prompt-from-label"

\* create-label of p was answered with a created label and no later call of
\* p was answered with a success
LabelLeftUnattached(p) ==
    /\ Len(replies[p]) >= 2
    /\ calls[p][1].op = "createLabel"
    /\ Succeeded(replies[p][1]) /\ replies[p][1].label \in LabelIds
    /\ \A k \in 2..Len(replies[p]) : ~Succeeded(replies[p][k])

\* C21: in the create+add handler and in the retry handler, an invocation
\* whose create-label succeeded and whose attach step failed (the add-label
\* call, or all three set-labels attempts) ends with status 500 and has
\* issued the create-label call once and the attach calls only: no call
\* deletes the label or compensates, and none follows the failure.
C21_NoCompensation ==
    \A p \in Procs :
        (Variant(p) \in CreatedVariants /\ Done(p) /\ LabelLeftUnattached(p))
        => /\ response[p].status = 500
           /\ Len(calls[p]) = Len(replies[p])
           /\ Len(calls[p]) = (IF Variant(p) = "createAdd" THEN 2 ELSE 4)
           /\ \A k \in 2..Len(calls[p]) :
                 calls[p][k].op = (IF Variant(p) = "createAdd" THEN "addLabelToHighlight"
                                   ELSE "setLabelsForHighlight")

C21_Witness ==
    \E p \in Procs :
        /\ Variant(p) = "createAdd"
        /\ Done(p) /\ LabelLeftUnattached(p)
        /\ replies[p][1].label = "L2"
        /\ replies[p][2] = FetchRejects
        /\ response[p].status = 500

\* C22: an invocation of the retry handler issues create-label at most once,
\* as its first call, and never again; each later call is a set-labels
\* attempt, and all attempts are the same request: for the highlight of the
\* event, with the one label id that the create-label reply carried; there
\* are at most four calls in all.
C22_OnlySetLabelsRetried ==
    \A p \in Procs :
        Variant(p) = "setLabelsRetry"
        => /\ Len(calls[p]) <= 4
           /\ CallsOf(p, "createLabel") \subseteq {1}
           /\ calls[p] # <<>> => calls[p][1].op = "createLabel"
           /\ \A k \in 2..Len(calls[p]) :
                 /\ calls[p][k].op = "setLabelsForHighlight"
                 /\ calls[p][k] = calls[p][2]
                 /\ replies[p][1].label \in LabelIds
                 /\ calls[p][k].labelIds = <<replies[p][1].label>>
                 /\ calls[p][k].highlightId = Body(p).highlight.id
                 /\ calls[p][k].auth = env.OMNIVORE_API_KEY

C22_Witness ==
    \E p \in Procs :
        /\ Variant(p) = "setLabelsRetry"
        /\ Done(p)
        /\ OpsOf(p) = <<"createLabel", "setLabelsForHighlight", "setLabelsForHighlight",
                        "setLabelsForHighlight">>
        /\ calls[p][4].labelIds = <<"L2">>
        /\ calls[p][4].highlightId = "h1"

RECURSIVE SumOf(_)
SumOf(q) == IF q = <<>> THEN 0 ELSE Head(q) + SumOf(Tail(q))

\* C23: the retry handler delays only between two set-labels attempts: none
\* before the first attempt, none after the third failure, and a delay is
\* always followed by an attempt; the k-th delay of an invocation, which
\* follows its k-th failure, lasts 2 * k seconds; the delays of an
\* invocation add up to 6 seconds at most; the other handlers never delay.
C23_BackoffBetweenAttempts ==
    /\ [](\A p \in Procs :
             /\ Variant(p) # "setLabelsRetry" => waits[p] = <<>>
             /\ Variant(p) = "setLabelsRetry"
                => /\ \A k \in DOMAIN waits[p] : waits[p][k] = 2 * k * 1000
                   /\ Len(waits[p]) = (IF retries[p] < 3 THEN retries[p] ELSE 2)
                   /\ Attempts(p) <= 1 /\ pc[p] # "delay" => waits[p] = <<>>
                   /\ pc[p] = "delay" => Attempts(p) = Len(waits[p])
                   /\ pc[p] = "setLabels" => Attempts(p) = Len(waits[p]) + 1
                   /\ Done(p) /\ Attempts(p) > 0 => Len(waits[p]) \in {Attempts(p) - 1,
                                                                       Attempts(p) - 2}
                   /\ Done(p) /\ retries[p] = 3 => waits[p] = <<2000, 4000>>
                   /\ SumOf(waits[p]) <= 6000)
    /\ [][\A p \in Procs :
             /\ waits'[p] # waits[p] => (pc[p] = "setLabels" /\ pc'[p] = "delay")
             /\ (pc[p] = "delay" /\ pc'[p] # "delay")
                => (pc'[p] = "setLabels" /\ Attempts(p)' = Attempts(p) + 1)]_vars

C23_Witness ==
    \E p \in Procs :
        /\ Variant(p) = "setLabelsRetry"
        /\ Done(p) /\ response[p].status = 200
        /\ Attempts(p) = 3
        /\ waits[p] = <<2000, 4000>>

\* C24: in the retry handler, a create-label reply that is a JSON object
\* with no `errors` field and no created label ends the invocation at once:
\* the read of the label's id throws, the top-level catch answers with
\* status 500, and no set-labels attempt is made (nor any delay).
C24_NoLabelNoAttempt ==
    \A p \in Procs :
        (/\ Variant(p) = "setLabelsRetry"
         /\ replies[p] # <<>>
         /\ Succeeded(replies[p][1])
         /\ replies[p][1].label = "missing")
        => /\ Done(p)
           /\ response[p] = Response(500, <<"error handling Omnivore webhook: ",
                                            "Cannot read properties of undefined">>)
           /\ OpsOf(p) = <<"createLabel">>
           /\ Len(replies[p]) = 1
           /\ newLabelId[p] = Undefined
           /\ retries[p] = 0 /\ waits[p] = <<>> /\ ~success[p]

C24_Witness ==
    \E p \in Procs :
        /\ Variant(p) = "setLabelsRetry"
        /\ replies[p] = <<Reply("json", FALSE, <<>>, "missing")>>
        /\ Done(p)
        /\ response[p].status = 500
        /\ CallsOf(p, "setLabelsForHighlight") = {}

\* the annotate-label is configured and is the part before the first ':' of
\* the name of one of the labels of p's payload: of its labels list, or of
\* the payload itself when it has no such list
LabelMatches(p) ==
    /\ env.OMNIVORE_ANNOTATE_LABEL \notin {Undefined, Null, ""}
    /\ \/ /\ Body(p).label.hasLabels
          /\ \E k \in DOMAIN Body(p).label.labels :
                Body(p).label.labels[k][1] = env.OMNIVORE_ANNOTATE_LABEL
       \/ /\ ~Body(p).label.hasLabels
          /\ Body(p).label.name # <<>>
          /\ Body(p).label.name[1] = env.OMNIVORE_ANNOTATE_LABEL

\* C25: the annotation handler, once it has handled an event with a label
\* payload, has fetched the article of the label's page when the
\* annotate-label is configured and matches a label of the payload, and has
\* otherwise answered with status 500 without any call; an event with a page
\* payload only has its article fetched whatever the annotate-label is.
C25_LabelFilter ==
    \A p \in Procs :
        (Variant(p) = "annotation" /\ Body(p).json = "object" /\ pc[p] # "start")
        => /\ (Body(p).label.is = "object" /\ ~LabelMatches(p))
              => (Done(p) /\ response[p].status = 500 /\ calls[p] = <<>>)
           /\ (Body(p).label.is = "object" /\ LabelMatches(p))
              => (calls[p] # <<>>
                  /\ calls[p][1].op = "article"
                  /\ calls[p][1].slug = Body(p).label.pageId)
           /\ (Body(p).label.is # "object" /\ Body(p).page.is = "object")
              => (calls[p] # <<>>
                  /\ calls[p][1].op = "article"
                  /\ calls[p][1].slug = Body(p).page.id)

\* a label 'summarize:short' next to another one passes the filter
C25_Witness ==
    \E p \in Procs :
        /\ Variant(p) = "annotation"
        /\ Body(p).label.labels = <<<<"other">>, <<"summarize", "short">>>>
        /\ env.OMNIVORE_ANNOTATE_LABEL = "summarize"
        /\ pc[p] = "article"
        /\ calls[p][1].slug = "a1"

\* the kind of p's event as its payloads tell it
KindByPayload(p) ==
    IF Body(p).label.is = "object" THEN "LABEL_ADDED"
    ELSE IF Body(p).page.is = "object" THEN "PAGE_CREATED"
    ELSE "neither"

\* C26: the annotation handler goes by the payloads of the event, whatever
\* its action field says: with a label payload, also next to a page payload,
\* the event is a LABEL_ADDED (the article fetched, if the label filter lets
\* it pass, is the label's pageId, never the page's id); with a page payload
\* alone it is a PAGE_CREATED (the article is the page's id); with neither
\* the answer is status 500 and no call is issued.
C26_KindByPayload ==
    \A p \in Procs :
        (Variant(p) = "annotation" /\ Body(p).json = "object" /\ pc[p] # "start")
        => CASE KindByPayload(p) = "LABEL_ADDED" ->
                    IF calls[p] = <<>>
                    THEN Done(p) /\ response[p].status = 500 /\ ~LabelMatches(p)
                    ELSE calls[p][1] = ArticleCall(Coalesce(env.OMNIVORE_API_KEY, ""),
                                                   Body(p).label.pageId)
             [] KindByPayload(p) = "PAGE_CREATED" ->
                    /\ calls[p] # <<>>
                    /\ calls[p][1] = ArticleCall(Coalesce(env.OMNIVORE_API_KEY, ""),
                                                 Body(p).page.id)
             [] KindByPayload(p) = "neither" ->
                    /\ Done(p)
                    /\ response[p] =
                          Response(500, <<"error adding annotation to Omnivore article: ",
                                          "no label or page data in the webhook payload">>)
                    /\ calls[p] = <<>>

\* an event that calls itself PAGE_CREATED and carries a label and a page
C26_Witness ==
    \E p \in Procs :
        /\ Variant(p) = "annotation"
        /\ Body(p).action = "PAGE_CREATED"
        /\ Body(p).label.is = "object" /\ Body(p).page.is = "object"
        /\ Body(p).page.id = "a2"
        /\ calls[p] # <<>>
        /\ calls[p][1].slug = "a1"

\* At most one tag per invocation, made of its first uuidv4() value and
\* never replaced (the highlight handlers call uuidv4() once, whatever the
\* number of attempts; the annotation handler once more, for the id of a new
\* note); the tag is the name in every create-label call, the label in every
\* add-label call, and is named in the response of a success; the create+add
\* and retry handlers generate it before they check the API key.
OneTagUsedThroughout(p) ==
    /\ labelName[p] = <<>> <=> issued[p] = <<>>
    /\ labelName[p] # <<>> => labelName[p] = <<"uuid:", issued[p][1]>>
    /\ Len(issued[p]) <= (IF Variant(p) = "annotation" THEN 2 ELSE 1)
    /\ \A k \in CallsOf(p, "createLabel") : calls[p][k].name = labelName[p]
    /\ \A k \in CallsOf(p, "addLabelToHighlight") : calls[p][k].label = labelName[p]
    /\ (Done(p) /\ response[p].status = 200 /\ calls[p] # <<>>)
       => Mentions(response[p].text, labelName[p])
    /\ (Variant(p) \in CreatedVariants /\ Processable(p) /\ KeyMissing /\ Done(p))
       => (labelName[p] # <<>> /\ calls[p] = <<>>)

\* C27 as stated: one tag per invocation, used throughout as above, and
\* generated before any outbound call: an invocation with a call has its tag.
C27_TagBeforeAnyCall ==
    \A p \in Procs :
        /\ OneTagUsedThroughout(p)
        /\ calls[p] # <<>> => labelName[p] # <<>>

\* C27 amended: one tag per invocation, used throughout as above; the
\* highlight handlers generate it before their first outbound call, the
\* annotation handler only after its article query and its completion call
\* were answered, before its create-label call.
C27_TagBeforeCreateLabel ==
    \A p \in Procs :
        /\ OneTagUsedThroughout(p)
        /\ (Variant(p) \in HighlightVariants /\ calls[p] # <<>>) => labelName[p] # <<>>
        /\ Variant(p) = "annotation"
           => /\ labelName[p] # <<>> <=> Len(calls[p]) >= 3
              /\ labelName[p] # <<>> => (Len(replies[p]) >= 2 /\ calls[p][3].op = "createLabel")

\* the annotation handler has generated its tag, two calls after its start
C27_Witness ==
    \E p \in Procs :
        /\ Variant(p) = "annotation"
        /\ pc[p] = "createLabel"
        /\ OpsOf(p) = <<"article", "completion", "createLabel">>
        /\ labelName[p] = <<"uuid:", "uuid-2">>
        /\ calls[p][3].name = labelName[p]

====
